---- MODULE Spec2Model ----
(***************************************************************************)
(* Lilly Safety Hub (src/app.py): a Streamlit script that is re-executed   *)
(* from top to bottom on every interaction.  One script run is one action  *)
(* of this model.  The state is what survives a run: the two tables, the   *)
(* evidence storage, session_state.logged_in, the deployment's secrets and *)
(* the system clock; `view` records what the last run rendered.            *)
(*                                                                         *)
(* Text is a sequence of one-character strings, so that strip(), the two   *)
(* re.sub() normalisations and LIKE are computed character by character.   *)
(* A calendar date is a day number; its ISO-8601 text is the fixed-width   *)
(* digit sequence that isoformat() writes and SQL compares.                *)
(***************************************************************************)
EXTENDS Integers, Sequences, FiniteSets, TLC

\* ------------------------------------------------------------------ bounds
MaxRows == 2          \* rows the two tables may hold together
MaxCountRows == 3     \* the same in the repeat-offender scenario
MaxDay == 1           \* days the clock may advance past Day0
MaxSec == 1           \* seconds the clock may advance within a day

\* ------------------------------------------------------- program constants
REPEAT_THRESHOLD_TOTAL == 3
REPEAT_THRESHOLD_30D == 2
WINDOW_DAYS == 30
Day0 == 40            \* the day number of the first run (any day >= 31 serves)

None == <<"None">>    \* Python's None / SQL NULL
ALL == <<"(", "A", "l", "l", ")">>

\* -------------------------------------------------------------- characters
Lower == {"a","b","c","d","e","f","g","h","i","j","k","l","m",
          "n","o","p","q","r","s","t","u","v","w","x","y","z"}
Upper == {"A","B","C","D","E","F","G","H","I","J","K","L","M",
          "N","O","P","Q","R","S","T","U","V","W","X","Y","Z"}
Digit == {"0","1","2","3","4","5","6","7","8","9"}
Space == {" ", "\t", "\n"}

TokenChar(c) == c \in Lower \cup Upper \cup Digit \cup {"_", "-"}
FileChar(c) == c \in Lower \cup Upper \cup Digit \cup {"_", ".", "-"}

\* str.strip(): drop leading and trailing whitespace
RECURSIVE LStrip(_)
LStrip(s) == IF s # <<>> /\ Head(s) \in Space THEN LStrip(Tail(s)) ELSE s

RECURSIVE RStrip(_)
RStrip(s) ==
  IF s # <<>> /\ s[Len(s)] \in Space THEN RStrip(SubSeq(s, 1, Len(s) - 1)) ELSE s

Strip(s) == RStrip(LStrip(s))

\* Python truthiness of an optional string: None and "" are falsy
Truthy(s) == s # None /\ s # <<>>

\* x.strip() or None
StripOrNone(s) == IF Strip(s) = <<>> THEN None ELSE Strip(s)

\* faulty variant: re.sub(..., count=1): only the first run of other characters goes
clean_token_first_run(text) ==
  LET t == Strip(IF Truthy(text) THEN text ELSE <<>>)
      bad == {i \in DOMAIN t : ~TokenChar(t[i])}
      first == CHOOSE i \in bad : \A j \in bad : i <= j
      next == CHOOSE i \in (first + 1)..(Len(t) + 1) :
                /\ i = Len(t) + 1 \/ TokenChar(t[i])
                /\ \A j \in (first + 1)..(i - 1) : ~TokenChar(t[j])
  IN  IF bad = {} THEN t
      ELSE SubSeq(t, 1, first - 1) \o SubSeq(t, next, Len(t))

\* re.sub(r"[^a-zA-Z0-9_-]+", "", (text or "").strip())
clean_token(text) ==
  LET t == IF Truthy(text) THEN text ELSE <<>>
  IN  SelectSeq(Strip(t), TokenChar)

\* re.sub(r"[^a-zA-Z0-9_.-]+", "_", name or "file"): each maximal run of
\* other characters becomes one underscore
RECURSIVE SubRuns(_, _)
SubRuns(s, inRun) ==
  IF s = <<>> THEN <<>>
  ELSE IF FileChar(Head(s)) THEN <<Head(s)>> \o SubRuns(Tail(s), FALSE)
  ELSE IF inRun THEN SubRuns(Tail(s), TRUE)
  ELSE <<"_">> \o SubRuns(Tail(s), TRUE)

safe_filename(name) ==
  SubRuns(IF Truthy(name) THEN name ELSE <<"f","i","l","e">>, FALSE)

\* ------------------------------------------------------------------- clock
\* date.isoformat(): fixed-width decimal fields, most significant first
Isoformat(d) == <<ToString(d \div 10), ToString(d % 10)>>

\* datetime.now().isoformat(timespec="seconds")
CreatedAt(t) == Isoformat(t.day) \o <<"T", ToString(t.sec)>>

\* datetime.now().strftime("%Y%m%d_%H%M%S")
now_ts(t) == Isoformat(t.day) \o <<"_", ToString(t.sec)>>

\* the characters of the model in code-point order
Ascii == <<"\t", "\n", " ", "#", "%", "(", ")", "-", ".", "/",
           "0","1","2","3","4","5","6","7","8","9",
           "A","B","C","D","E","F","G","H","I","J","K","L","M",
           "N","O","P","Q","R","S","T","U","V","W","X","Y","Z", "_",
           "a","b","c","d","e","f","g","h","i","j","k","l","m",
           "n","o","p","q","r","s","t","u","v","w","x","y","z">>
Ord(c) == CHOOSE i \in DOMAIN Ascii : Ascii[i] = c

\* text comparison as SQL does it: lexicographic
RECURSIVE TextLess(_, _)
TextLess(a, b) ==
  IF b = <<>> THEN FALSE
  ELSE IF a = <<>> THEN TRUE
  ELSE IF Head(a) # Head(b) THEN Ord(Head(a)) < Ord(Head(b))
  ELSE TextLess(Tail(a), Tail(b))

TextLeq(a, b) == a = b \/ TextLess(a, b)

\* ------------------------------------------------------------------ tables
\* a table is the sequence of its rows in insertion (rowid) order
Range(f) == {f[i] : i \in DOMAIN f}

PersonnelKeys == {"created_at", "date_of_event", "hard_hat_number", "company",
                  "trade", "location", "violation_type", "severity",
                  "description", "corrective_action", "evidence_path"}
SiteKeys == {"created_at", "date_of_event", "company", "building", "floor",
             "risk_level", "issue", "photo_path"}

\* row.get(k): None for a missing key
Get(row, k) == IF k \in DOMAIN row THEN row[k] ELSE None

\* the keys the functions read with row[k]: a row without one raises KeyError
\* while the parameter tuple is built, before the statement is executed
PersonnelRequired == {"created_at", "date_of_event", "hard_hat_number",
                      "violation_type", "severity", "description"}
SiteRequired == {"created_at", "date_of_event", "company", "building", "floor",
                 "risk_level", "issue"}

\* the row the INSERT statement writes: id is the next rowid, every column
\* takes the bound parameter
StoredRow(table, row, keys) ==
  [k \in keys \cup {"id"} |-> IF k = "id" THEN Len(table) + 1 ELSE Get(row, k)]

\* a connection: the table as committed, and as the connection's open
\* transaction sees it
Connect(table) == [committed |-> table, pending |-> table]

\* conn.execute("INSERT ..."): the row is written inside the transaction
Execute(conn, row, keys) ==
  [conn EXCEPT !.pending = Append(@, StoredRow(@, row, keys))]

\* conn.commit()
Commit(conn) == [conn EXCEPT !.committed = conn.pending]

\* faulty variant: a connection in autocommit mode: what was executed stays
Close_autocommit(conn) == conn.pending

\* conn.close(): an open transaction is rolled back
Close(conn) == conn.committed

\* the steps at which an insert can raise
InsertFaults == {"connect", "execute", "commit"}

\* the body the two insert functions share: db_connect() outside the try;
\* inside it the parameter tuple, the INSERT and the commit; close() in the
\* finally.  fault names the step that raises, if any.
Insert(table, row, keys, required, fault) ==
  IF fault = "connect"
  THEN [raised |-> TRUE, table |-> table]
  ELSE LET conn == Connect(table)
       IN  IF ~(required \subseteq DOMAIN row) \/ fault = "execute"
           THEN [raised |-> TRUE, table |-> Close(conn)]
           ELSE IF fault = "commit"
           THEN [raised |-> TRUE, table |-> Close(Execute(conn, row, keys))]
           ELSE [raised |-> FALSE,
                 table |-> Close(Commit(Execute(conn, row, keys)))]

\* faulty variant: INSERT OR REPLACE under a fixed id: the new row takes the place of
\* the rows stored before
insert_personnel_replace(table, row, fault) ==
  [raised |-> FALSE, table |-> <<StoredRow(<<>>, row, PersonnelKeys)>>]

\* insert_personnel(row)
insert_personnel(table, row, fault) ==
  Insert(table, row, PersonnelKeys, PersonnelRequired, fault)

\* insert_site(row)
insert_site(table, row, fault) ==
  Insert(table, row, SiteKeys, SiteRequired, fault)

\* faulty variant: both counts without their hard_hat_number condition
count_personnel_any_hat(table, hard_hat, today) ==
  <<Len(table),
    Cardinality({i \in DOMAIN table :
                   TextLeq(Isoformat(today - WINDOW_DAYS), table[i].date_of_event)})>>

\* SELECT COUNT(*) ... WHERE hard_hat_number = ?   and the same with
\* AND date(date_of_event) >= date('now','-30 day')
count_personnel(table, hard_hat, today) ==
  LET mine == {i \in DOMAIN table : table[i].hard_hat_number = hard_hat}
      since == Isoformat(today - WINDOW_DAYS)
      last == {i \in mine : TextLeq(since, table[i].date_of_event)}
  IN  <<Cardinality(mine), Cardinality(last)>>

\* faulty variant: the thresholds compared with > instead of >=
Escalate_strict(total, last30) ==
  total > REPEAT_THRESHOLD_TOTAL \/ last30 > REPEAT_THRESHOLD_30D

\* the escalation test of the personnel log tab
Escalate(total, last30) ==
  total >= REPEAT_THRESHOLD_TOTAL \/ last30 >= REPEAT_THRESHOLD_30D

\* ascending list of a finite set of texts
RECURSIVE SortedTexts(_)
SortedTexts(S) ==
  IF S = {} THEN <<>>
  ELSE LET m == CHOOSE x \in S : \A y \in S : TextLeq(x, y)
       IN  <<m>> \o SortedTexts(S \ {m})

\* SELECT DISTINCT hard_hat_number ... ORDER BY hard_hat_number, falsy dropped
fetch_hardhats(table) ==
  SortedTexts({r.hard_hat_number : r \in {x \in Range(table) : Truthy(x.hard_hat_number)}})

\* SELECT DISTINCT building ... ORDER BY building, falsy dropped
fetch_buildings(table) ==
  SortedTexts({r.building : r \in {x \in Range(table) : Truthy(x.building)}})

\* ---------------------------------------------------------------- queries
UpperSeq == <<"A","B","C","D","E","F","G","H","I","J","K","L","M",
              "N","O","P","Q","R","S","T","U","V","W","X","Y","Z">>
LowerSeq == <<"a","b","c","d","e","f","g","h","i","j","k","l","m",
              "n","o","p","q","r","s","t","u","v","w","x","y","z">>

\* SQLite's LIKE folds ASCII case; PostgreSQL's does not
Fold(c, postgres) ==
  IF ~postgres /\ c \in Upper
  THEN LowerSeq[CHOOSE i \in 1..26 : UpperSeq[i] = c]
  ELSE c

\* text LIKE pattern: % is any run, _ any one character
RECURSIVE LikeMatch(_, _, _)
LikeMatch(s, p, postgres) ==
  IF p = <<>> THEN s = <<>>
  ELSE IF Head(p) = "%"
    THEN LikeMatch(s, Tail(p), postgres)
         \/ (s # <<>> /\ LikeMatch(Tail(s), p, postgres))
  ELSE IF s = <<>> THEN FALSE
  ELSE IF Head(p) = "_" THEN LikeMatch(Tail(s), Tail(p), postgres)
  ELSE Fold(Head(s), postgres) = Fold(Head(p), postgres)
       /\ LikeMatch(Tail(s), Tail(p), postgres)

\* column LIKE '%keyword%'; NULL LIKE anything is not true
Like(col, keyword, postgres) ==
  col # None /\ LikeMatch(col, <<"%">> \o keyword \o <<"%">>, postgres)

\* filters.get(k) and filters[k] != "(All)"
Picked(filters, k) == Truthy(Get(filters, k)) /\ filters[k] # ALL

\* faulty variant: the WHERE clause without its severity condition
PersonnelWhere_no_severity(r, filters, postgres) ==
  /\ Picked(filters, "hard_hat") => r.hard_hat_number = filters.hard_hat
  /\ Picked(filters, "type") => r.violation_type = filters.type
  /\ Truthy(Get(filters, "keyword")) =>
       \/ Like(r.description, filters.keyword, postgres)
       \/ Like(r.location, filters.keyword, postgres)
       \/ Like(r.company, filters.keyword, postgres)
       \/ Like(r.trade, filters.keyword, postgres)

\* the WHERE clause fetch_personnel builds
PersonnelWhere(r, filters, postgres) ==
  /\ Picked(filters, "hard_hat") => r.hard_hat_number = filters.hard_hat
  /\ Picked(filters, "type") => r.violation_type = filters.type
  /\ Picked(filters, "severity") => r.severity = filters.severity
  /\ Truthy(Get(filters, "keyword")) =>
       \/ Like(r.description, filters.keyword, postgres)
       \/ Like(r.location, filters.keyword, postgres)
       \/ Like(r.company, filters.keyword, postgres)
       \/ Like(r.trade, filters.keyword, postgres)

\* the WHERE clause fetch_site builds
SiteWhere(r, filters, postgres) ==
  /\ Picked(filters, "building") => r.building = filters.building
  /\ Picked(filters, "floor") => r.floor = filters.floor
  /\ Picked(filters, "risk_level") => r.risk_level = filters.risk_level
  /\ Truthy(Get(filters, "company_contains")) =>
       Like(r.company, filters.company_contains, postgres)
  /\ Truthy(Get(filters, "keyword")) => Like(r.issue, filters.keyword, postgres)

\* faulty variant: ORDER BY created_at ASC
OrderedAsc(table, sel) ==
  LET n == Cardinality(sel)
  IN  {[i \in 1..n |-> table[p[i]]] :
         p \in {q \in [1..n -> sel] :
                  /\ \A i, j \in 1..n : i # j => q[i] # q[j]
                  /\ \A i \in 1..n - 1 :
                       TextLeq(table[q[i]].created_at, table[q[i + 1]].created_at)}}

\* ORDER BY created_at DESC: every listing of the selected rows in which
\* created_at never increases.  SQL leaves the order of rows with equal
\* keys undefined, so each such listing is a result the query may give.
OrderedDesc(table, sel) ==
  LET n == Cardinality(sel)
  IN  {[i \in 1..n |-> table[p[i]]] :
         p \in {q \in [1..n -> sel] :
                  /\ \A i, j \in 1..n : i # j => q[i] # q[j]
                  /\ \A i \in 1..n - 1 :
                       TextLeq(table[q[i + 1]].created_at, table[q[i]].created_at)}}

\* SELECT * FROM personnel_violations WHERE ... ORDER BY created_at DESC
fetch_personnel(table, filters, postgres) ==
  OrderedDesc(table, {i \in DOMAIN table : PersonnelWhere(table[i], filters, postgres)})

\* SELECT * FROM site_issues WHERE ... ORDER BY created_at DESC
fetch_site(table, filters, postgres) ==
  OrderedDesc(table, {i \in DOMAIN table : SiteWhere(table[i], filters, postgres)})

\* ------------------------------------------------------------------ secrets
SupabaseKeys == {"SUPABASE_URL", "SUPABASE_SERVICE_KEY", "SUPABASE_BUCKET",
                 "DATABASE_URL"}
DefaultPassword == "ChangeMe123!"

\* all(k in st.secrets for k in [...])
supabase_enabled(sec) == SupabaseKeys \subseteq DOMAIN sec

\* str(st.secrets.get("APP_PASSWORD", "ChangeMe123!"))
get_app_password(sec) ==
  IF "APP_PASSWORD" \in DOMAIN sec THEN sec["APP_PASSWORD"] ELSE DefaultPassword

\* db_connect(): with Supabase configured it evaluates psycopg2.connect, but the
\* script binds only RealDictCursor (from psycopg2.extras import ...), never
\* the name psycopg2, so the call raises NameError; otherwise it opens SQLite.
db_connect(sec) == IF supabase_enabled(sec) THEN "NameError" ELSE "sqlite"

\* db_is_postgres(conn)
db_is_postgres(conn) == conn = "postgres"

\* init_db(): CREATE TABLE IF NOT EXISTS keeps the rows of an existing table
init_db(table) == table

\* ----------------------------------------------------------------- storage
LocalUploads == <<"u","p","l","o","a","d","s","/">>
PeopleFolder(hh) == <<"p","e","o","p","l","e","/">> \o hh
SiteFolder(building, floor) ==
  <<"s","i","t","e","/">> \o safe_filename(Strip(building))
    \o <<"/","f","l","o","o","r","_">> \o safe_filename(Strip(floor))

\* the name upload_evidence stores the file under, which it returns
UploadPointer(file, folder, t, u, enabled) ==
  IF enabled
  THEN folder \o <<"/">> \o now_ts(t) \o <<"_", u, "_">> \o safe_filename(file.name)
  ELSE LocalUploads \o now_ts(t) \o <<"_">> \o safe_filename(file.name)

\* writing an object: upsert / open(out, "wb") replace what the name held
Put(store, ptr, data) ==
  [q \in DOMAIN store \cup {ptr} |-> IF q = ptr THEN data ELSE store[q]]

\* an empty file uploader: uploaded_file is None
NoFile == [name |-> <<>>, data |-> "none"]

\* faulty variant: a storage call that reports a failed request without raising: the
\* name is returned although nothing was stored
upload_evidence_unchecked(store, file, folder, t, u, enabled, fault) ==
  IF file = NoFile
  THEN [raised |-> FALSE, pointer |-> None, storage |-> store]
  ELSE [raised |-> FALSE,
        pointer |-> UploadPointer(file, folder, t, u, enabled),
        storage |-> IF fault = "upload" THEN store
                    ELSE Put(store, UploadPointer(file, folder, t, u, enabled),
                             file.data)]

\* upload_evidence(uploaded_file, folder).  With fault = "upload" the storage
\* call (the Supabase request, or mkdir/open of the local file) raises and
\* nothing is stored.
upload_evidence(store, file, folder, t, u, enabled, fault) ==
  IF file = NoFile
  THEN [raised |-> FALSE, pointer |-> None, storage |-> store]
  ELSE LET ptr == UploadPointer(file, folder, t, u, enabled)
       IN  IF fault = "upload"
           THEN [raised |-> TRUE, pointer |-> None, storage |-> store]
           ELSE [raised |-> FALSE, pointer |-> ptr,
                 storage |-> Put(store, ptr, file.data)]

\* ------------------------------------------------------------------- state
VARIABLES
  secrets,      \* st.secrets of the deployment
  logged_in,    \* st.session_state.logged_in
  personnel,    \* table personnel_violations
  site,         \* table site_issues
  storage,      \* evidence storage: stored name -> content
  issued,       \* values uuid.uuid4() has returned
  now,          \* the system clock: [day, sec]
  view          \* what the last script run computed and rendered

vars == <<secrets, logged_in, personnel, site, storage, issued, now, view>>

Uuids == {"u1", "u2"}

NoView ==
  [page |-> "none", form |-> <<>>, counted |-> FALSE, total |-> 0, last30 |-> 0,
   warned |-> FALSE, save |-> "none", file |-> FALSE, pointer |-> None,
   filters |-> <<>>, rows |-> <<>>, today |-> 0]

SecretsLocal == [k \in {"APP_PASSWORD", "SUPABASE_URL"} |-> "configured"]
SecretsSupabase == [k \in SupabaseKeys |-> "configured"]

Init ==
  /\ secrets \in {SecretsLocal, SecretsSupabase}
  /\ logged_in = FALSE
  /\ personnel = <<>>
  /\ site = <<>>
  /\ storage = <<>>
  /\ issued = {}
  /\ now = [day |-> Day0, sec |-> 0]
  /\ view = NoView

\* ------------------------------------------------------------------- clock
TickSec ==
  /\ now.sec < MaxSec
  /\ now' = [now EXCEPT !.sec = @ + 1]
  /\ UNCHANGED <<secrets, logged_in, personnel, site, storage, issued, view>>

TickDay ==
  /\ now.day < Day0 + MaxDay
  /\ now' = [day |-> now.day + 1, sec |-> 0]
  /\ UNCHANGED <<secrets, logged_in, personnel, site, storage, issued, view>>

\* -------------------------------------------------------------------- auth
\* faulty variant: a gate that returns without testing the flag
ensure_logged_in_open(flag) == TRUE

\* ensure_logged_in() returns, and the script goes on to init_db(), exactly
\* when the flag is set; otherwise it renders the login form and st.stop()s
ensure_logged_in(flag) == flag

\* ensure_logged_in() of a session that is not logged in: the login form,
\* the Login button pressed with password pw, then st.stop()
Login(pw) ==
  /\ ~ensure_logged_in(logged_in)
  /\ logged_in' = (pw = get_app_password(secrets))
  /\ view' = [NoView EXCEPT !.page = IF pw = get_app_password(secrets)
                                      THEN "login" ELSE "wrong_password",
                            !.form = <<pw>>]
  /\ UNCHANGED <<secrets, personnel, site, storage, issued, now>>

\* a run of a logged-in session that ends in init_db(): db_connect() raises
\* (NameError under Supabase, or the database cannot be opened)
RunAborted(dbFails) ==
  /\ ensure_logged_in(logged_in)
  /\ db_connect(secrets) = "NameError" \/ dbFails
  /\ view' = [NoView EXCEPT !.page = "error"]
  /\ UNCHANGED <<secrets, logged_in, personnel, site, storage, issued, now>>

\* a run in which the Logout button is pressed: init_db(), then the flag is
\* cleared and st.rerun() ends the run
Logout ==
  /\ ensure_logged_in(logged_in)
  /\ db_connect(secrets) = "sqlite"
  /\ logged_in' = FALSE
  /\ personnel' = init_db(personnel)
  /\ site' = init_db(site)
  /\ view' = [NoView EXCEPT !.page = "logout"]
  /\ UNCHANGED <<secrets, storage, issued, now>>

\* ------------------------------------------------------- the personnel page
\* One run of the script by a logged-in session with the personnel entry
\* type selected.  in holds the widget values of the run (hh_raw, date_event,
\* v_type, severity, description, company, evidence, the Save button, the
\* review pickers) and fault, the step of this run that raises, if any.
\* cap bounds the rows the tables hold.
\* faulty variant: the row built before upload_evidence has returned: it holds no
\* pointer
PersonnelRow_before_upload(in, hh, pointer, t) ==
  [created_at |-> CreatedAt(t),
   date_of_event |-> Isoformat(in.date_event),
   hard_hat_number |-> hh,
   company |-> StripOrNone(in.company),
   trade |-> StripOrNone(<<>>),
   location |-> StripOrNone(<<>>),
   violation_type |-> in.v_type,
   severity |-> in.severity,
   description |-> Strip(in.description),
   corrective_action |-> StripOrNone(<<>>),
   evidence_path |-> None]

\* the dict the Save Personnel Violation handler passes to insert_personnel
PersonnelRow(in, hh, pointer, t) ==
  [created_at |-> CreatedAt(t),
   date_of_event |-> Isoformat(in.date_event),
   hard_hat_number |-> hh,
   company |-> StripOrNone(in.company),
   trade |-> StripOrNone(<<>>),
   location |-> StripOrNone(<<>>),
   violation_type |-> in.v_type,
   severity |-> in.severity,
   description |-> Strip(in.description),
   corrective_action |-> StripOrNone(<<>>),
   evidence_path |-> pointer]

PersonnelFilters(in) ==
  [hard_hat |-> in.hh_pick, type |-> in.type_pick, severity |-> in.sev_pick,
   keyword |-> StripOrNone(in.keyword)]

\* faulty variant: the chain without its description test
PersonnelError_no_description(hh, description) ==
  IF hh = <<>> THEN "hard_hat_required" ELSE "ok"

\* the if/elif chain of the Save Personnel Violation button
PersonnelError(hh, description) ==
  IF hh = <<>> THEN "hard_hat_required"
  ELSE IF Strip(description) = <<>> THEN "description_required"
  ELSE "ok"

\* faulty variant: the save branch outside the button's if: it runs on every rerun
SavePersonnel_every_run(click, hh, description) ==
  PersonnelError(hh, description) = "ok"

\* the save branch runs when the button was pressed and the chain reached else
SavePersonnel(click, hh, description) ==
  click /\ PersonnelError(hh, description) = "ok"

RunPersonnel(in, cap) ==
  LET conn == db_connect(secrets)
      enabled == supabase_enabled(secrets)
      u == CHOOSE x \in Uuids \cup {"u0"} : x \notin issued
      hh == clean_token(in.hh_raw)
      counted == hh # <<>>
      counts == count_personnel(personnel, hh, now.day)
      saving == SavePersonnel(in.click, hh, in.description)
      up == upload_evidence(storage, in.evidence, PeopleFolder(hh), now, u,
                            enabled, in.fault)
      uploadRaised == saving /\ up.raised
      ins == insert_personnel(personnel, PersonnelRow(in, hh, up.pointer, now),
                              in.fault)
      insertRaised == saving /\ ~up.raised /\ ins.raised
      inserted == saving /\ ~up.raised /\ ~ins.raised
      table == IF saving /\ ~up.raised THEN ins.table ELSE personnel
      reviewed == ~uploadRaised /\ ~insertRaised
      filters == PersonnelFilters(in)
  IN  /\ ensure_logged_in(logged_in)
      /\ conn = "sqlite"
      /\ inserted => Len(personnel) + Len(site) < cap
      /\ in.hh_pick \in {ALL} \cup Range(fetch_hardhats(table))
      /\ personnel' = init_db(table)
      /\ site' = init_db(site)
      /\ storage' = IF saving THEN up.storage ELSE storage
      /\ issued' = IF saving /\ enabled /\ in.evidence # NoFile
                   THEN issued \cup {u} ELSE issued
      /\ \E rows \in IF reviewed
                     THEN fetch_personnel(table, filters, db_is_postgres(conn))
                     ELSE {<<>>} :
           view' = [page |-> IF reviewed THEN "personnel" ELSE "error",
                    form |-> <<hh, Strip(in.description)>>,
                    counted |-> counted,
                    total |-> IF counted THEN counts[1] ELSE 0,
                    last30 |-> IF counted THEN counts[2] ELSE 0,
                    warned |-> counted /\ Escalate(counts[1], counts[2]),
                    save |-> IF ~in.click THEN "none"
                             ELSE IF ~saving THEN PersonnelError(hh, in.description)
                             ELSE IF uploadRaised THEN "upload_raised"
                             ELSE IF insertRaised THEN "insert_raised"
                             ELSE "saved",
                    file |-> in.click /\ in.evidence # NoFile,
                    pointer |-> IF saving THEN up.pointer ELSE None,
                    filters |-> filters,
                    rows |-> rows,
                    today |-> now.day]
      /\ UNCHANGED <<secrets, logged_in, now>>

\* ------------------------------------------------------------ the site page
SiteRow(in, pointer, t) ==
  [created_at |-> CreatedAt(t),
   date_of_event |-> Isoformat(in.date_event),
   company |-> Strip(in.company),
   building |-> Strip(in.building),
   floor |-> Strip(in.floor),
   risk_level |-> in.risk_level,
   issue |-> Strip(in.issue),
   photo_path |-> pointer]

SiteFilters(in) ==
  [building |-> in.building_pick, floor |-> in.floor_pick,
   risk_level |-> in.risk_pick,
   company_contains |-> StripOrNone(in.company_contains),
   keyword |-> StripOrNone(in.keyword)]

\* the if/elif chain of the Save Site Safety Issue button
SiteError(company, building, floor, issue) ==
  IF Strip(company) = <<>> THEN "company_required"
  ELSE IF Strip(building) = <<>> THEN "building_required"
  ELSE IF Strip(floor) = <<>> THEN "floor_required"
  ELSE IF Strip(issue) = <<>> THEN "issue_required"
  ELSE "ok"

SaveSite(click, company, building, floor, issue) ==
  click /\ SiteError(company, building, floor, issue) = "ok"

RunSite(in, cap) ==
  LET conn == db_connect(secrets)
      enabled == supabase_enabled(secrets)
      u == CHOOSE x \in Uuids \cup {"u0"} : x \notin issued
      saving == SaveSite(in.click, in.company, in.building, in.floor, in.issue)
      up == upload_evidence(storage, in.photo, SiteFolder(in.building, in.floor),
                            now, u, enabled, in.fault)
      uploadRaised == saving /\ up.raised
      ins == insert_site(site, SiteRow(in, up.pointer, now), in.fault)
      insertRaised == saving /\ ~up.raised /\ ins.raised
      inserted == saving /\ ~up.raised /\ ~ins.raised
      table == IF saving /\ ~up.raised THEN ins.table ELSE site
      reviewed == ~uploadRaised /\ ~insertRaised
      filters == SiteFilters(in)
  IN  /\ ensure_logged_in(logged_in)
      /\ conn = "sqlite"
      /\ inserted => Len(personnel) + Len(site) < cap
      /\ in.building_pick \in {ALL} \cup Range(fetch_buildings(table))
      /\ personnel' = init_db(personnel)
      /\ site' = init_db(table)
      /\ storage' = IF saving THEN up.storage ELSE storage
      /\ issued' = IF saving /\ enabled /\ in.photo # NoFile
                   THEN issued \cup {u} ELSE issued
      /\ \E rows \in IF reviewed
                     THEN fetch_site(table, filters, db_is_postgres(conn))
                     ELSE {<<>>} :
           view' = [NoView EXCEPT
                    !.page = IF reviewed THEN "site" ELSE "error",
                    !.form = <<Strip(in.company), Strip(in.building),
                               Strip(in.floor), Strip(in.issue)>>,
                    !.save = IF ~in.click THEN "none"
                             ELSE IF ~saving
                               THEN SiteError(in.company, in.building, in.floor, in.issue)
                             ELSE IF uploadRaised THEN "upload_raised"
                             ELSE IF insertRaised THEN "insert_raised"
                             ELSE "saved",
                    !.file = in.click /\ in.photo # NoFile,
                    !.pointer = IF saving THEN up.pointer ELSE None,
                    !.filters = filters,
                    !.rows = rows,
                    !.today = now.day]
      /\ UNCHANGED <<secrets, logged_in, now>>

\* ------------------------------------------------------------------ inputs
PPE == <<"P","P","E">>
OtherType == <<"O","t","h","e","r">>
LOW == <<"L","o","w">>
HIGH == <<"H","i","g","h">>

FileA == [name |-> <<"a"," ","b">>, data |-> "A"]
FileB == [name |-> <<"a","_","b">>, data |-> "B"]

\* the step of a run that raises: the upload, or the commit of the insert
Faults == {"none", "upload", "commit"}
Passwords == {"configured", DefaultPassword}

\* a fault is drawn only for a run that reaches the step it names
FaultApplies(click, valid, file, fault) ==
  \/ fault = "none"
  \/ click /\ valid /\ fault \in InsertFaults
  \/ click /\ valid /\ file # NoFile /\ fault = "upload"

PersonnelValid(in) == clean_token(in.hh_raw) # <<>> /\ Strip(in.description) # <<>>
SiteValid(in) == \A k \in {"company", "building", "floor", "issue"} : Strip(in[k]) # <<>>

\* Widget values of the submission scenario: entries with and without a
\* file, valid and invalid, each step of a save failing or not.  The review
\* tabs are filtered on a severity and a risk level no entry has.
SubmitPersonnel ==
  {in \in [hh_raw : {<<" ","#">>, <<"7"," ">>},
           date_event : {Day0},
           v_type : {PPE},
           severity : {HIGH},
           description : {<<" ">>, <<"n","o">>},
           company : {<<>>},
           evidence : {NoFile, FileA},
           click : BOOLEAN,
           fault : Faults,
           hh_pick : {ALL},
           type_pick : {ALL},
           sev_pick : {LOW},
           keyword : {<<>>}] :
     /\ FaultApplies(in.click, PersonnelValid(in), in.evidence, in.fault)
     /\ ~in.click => in.evidence = NoFile /\ in.description = <<"n","o">>
     /\ in.click /\ ~PersonnelValid(in) =>
          in.evidence = FileA /\ (clean_token(in.hh_raw) = <<>> => in.description = <<"n","o">>)}

SubmitSite ==
  {in \in [company : {<<"c">>},
           building : {<<" ">>, <<"T"," ">>},
           floor : {<<"1">>},
           date_event : {Day0},
           risk_level : {LOW},
           issue : {<<>>, <<"w","e","t">>},
           photo : {NoFile, FileA},
           click : BOOLEAN,
           fault : Faults,
           building_pick : {ALL},
           floor_pick : {ALL},
           risk_pick : {HIGH},
           company_contains : {<<>>},
           keyword : {<<>>}] :
     /\ FaultApplies(in.click, SiteValid(in), in.photo, in.fault)
     /\ ~in.click => in.photo = NoFile /\ SiteValid(in)
     /\ in.click /\ ~SiteValid(in) =>
          in.photo = FileA /\ (Strip(in.building) = <<>> => in.issue = <<"w","e","t">>)}

\* one step of the program with the widget values drawn from P and S
Step(P, S, cap) ==
  \/ \E pw \in Passwords : Login(pw)
  \/ \E dbFails \in BOOLEAN : RunAborted(dbFails)
  \/ Logout
  \/ \E in \in P : RunPersonnel(in, cap)
  \/ \E in \in S : RunSite(in, cap)

\* the submission scenario, within one day
Next == TickSec \/ Step(SubmitPersonnel, SubmitSite, MaxRows)

Spec == Init /\ [][Next]_vars

\* Widget values of the repeat-offender scenario: two hard hats, an event
\* date on the edge of the 30-day window and one after Day0, over two days.
\* The review tab is filtered on a severity no entry has.
CountPersonnel ==
  {in \in [hh_raw : {<<"7"," ">>, <<"9","#">>},
           date_event : {Day0 - WINDOW_DAYS, Day0 + 1},
           v_type : {PPE},
           severity : {HIGH},
           description : {<<"n","o">>},
           company : {<<>>},
           evidence : {NoFile},
           click : BOOLEAN,
           fault : {"none"},
           hh_pick : {ALL},
           type_pick : {ALL},
           sev_pick : {LOW},
           keyword : {<<>>}] :
     ~in.click => in.date_event = Day0 + 1}

CountSite ==
  [company : {<<"c">>},
   building : {<<"T">>},
   floor : {<<"1">>},
   date_event : {Day0},
   risk_level : {LOW},
   issue : {<<"w","e","t">>},
   photo : {NoFile},
   click : {FALSE},
   fault : {"none"},
   building_pick : {ALL},
   floor_pick : {ALL},
   risk_pick : {ALL},
   company_contains : {<<>>},
   keyword : {<<>>}]

NextCount == TickDay \/ Step(CountPersonnel, CountSite, MaxCountRows)

SpecCount == Init /\ [][NextCount]_vars

\* Widget values of the review scenario: entries that differ in every
\* exact-match column, and review pickers that select on each of them.
PersonnelEntry(hh_raw, v_type, severity, description, company) ==
  [hh_raw |-> hh_raw, date_event |-> Day0, v_type |-> v_type, severity |-> severity,
   description |-> description, company |-> company, evidence |-> NoFile,
   click |-> TRUE, fault |-> "none"]

PersonnelPick(hh_pick, type_pick, sev_pick, keyword) ==
  [hh_pick |-> hh_pick, type_pick |-> type_pick, sev_pick |-> sev_pick,
   keyword |-> keyword]

QueryPersonnel ==
  {PersonnelEntry(<<"7"," ">>, PPE, HIGH, <<"n","o">>, <<>>) @@ PersonnelPick(ALL, ALL, ALL, <<>>),
   PersonnelEntry(<<"7">>, OtherType, LOW, <<"x">>, <<"N","o">>) @@ PersonnelPick(ALL, ALL, ALL, <<>>),
   PersonnelEntry(<<"9","#">>, PPE, LOW, <<"x">>, <<>>) @@ PersonnelPick(ALL, ALL, ALL, <<>>)}
  \cup
  {[PersonnelEntry(<<"7">>, PPE, HIGH, <<"n","o">>, <<>>) EXCEPT !.click = FALSE] @@ pick :
     pick \in {PersonnelPick(h, t, v, <<>>) :
                 h \in {ALL, <<"7">>}, t \in {ALL, PPE}, v \in {ALL, HIGH}}
             \cup {PersonnelPick(ALL, ALL, LOW, <<"N"," ">>)}}

SiteEntry(company, building, floor, risk_level) ==
  [company |-> company, building |-> building, floor |-> floor, date_event |-> Day0,
   risk_level |-> risk_level, issue |-> <<"w","e","t">>, photo |-> NoFile,
   click |-> TRUE, fault |-> "none"]

SitePick(building_pick, floor_pick, risk_pick, company_contains, keyword) ==
  [building_pick |-> building_pick, floor_pick |-> floor_pick, risk_pick |-> risk_pick,
   company_contains |-> company_contains, keyword |-> keyword]

QuerySite ==
  {SiteEntry(<<"c">>, <<"T"," ">>, <<"1">>, LOW) @@ SitePick(ALL, ALL, ALL, <<>>, <<>>),
   SiteEntry(<<"C","o">>, <<"T">>, <<" ","2">>, HIGH) @@ SitePick(ALL, ALL, ALL, <<>>, <<>>),
   SiteEntry(<<"c">>, <<"U">>, <<"1">>, HIGH) @@ SitePick(ALL, ALL, ALL, <<>>, <<>>)}
  \cup
  {[SiteEntry(<<"c">>, <<"T">>, <<"1">>, LOW) EXCEPT !.click = FALSE] @@ pick :
     pick \in {SitePick(b, f, r, <<>>, <<>>) :
                 b \in {ALL, <<"T">>}, f \in {ALL, <<"1">>}, r \in {ALL, HIGH}}
             \cup {SitePick(ALL, ALL, ALL, <<"O">>, <<"E","_">>)}}

NextQuery == TickSec \/ Step(QueryPersonnel, QuerySite, MaxRows)

SpecQuery == Init /\ [][NextQuery]_vars

\* The insert functions called on their own: rows with and without the
\* optional keys, rows that lack a required key, and each step failing.
MaxInsertRows == 2

Restrict(row, keys) == [k \in keys |-> row[k]]

InsertPointers == {None, <<"p">>}

InsertPersonnelRows(t) ==
  {Restrict(PersonnelRow(in, clean_token(in.hh_raw), pointer, t), keys) :
     in \in {PersonnelEntry(<<"7"," ">>, PPE, HIGH, <<"n","o">>, <<"N","o">>)},
     pointer \in InsertPointers,
     keys \in {PersonnelKeys, PersonnelRequired, PersonnelKeys \ {"description"}}}

InsertSiteRows(t) ==
  {Restrict(SiteRow(in, pointer, t), keys) :
     in \in {SiteEntry(<<"c">>, <<"T"," ">>, <<"1">>, LOW)},
     pointer \in InsertPointers,
     keys \in {SiteKeys, SiteRequired, SiteKeys \ {"created_at"}}}

\* a call insert_personnel(row): what it returned or raised, and the table after
CallInsertPersonnel(row, fault) ==
  LET ins == insert_personnel(personnel, row, fault)
  IN  /\ ~ins.raised => Len(personnel) + Len(site) < MaxInsertRows
      /\ personnel' = ins.table
      /\ view' = [NoView EXCEPT !.page = "insert_personnel",
                                !.form = <<row>>,
                                !.save = IF ins.raised THEN "insert_raised"
                                         ELSE "saved"]
      /\ UNCHANGED <<secrets, logged_in, site, storage, issued, now>>

\* a call insert_site(row)
CallInsertSite(row, fault) ==
  LET ins == insert_site(site, row, fault)
  IN  /\ ~ins.raised => Len(personnel) + Len(site) < MaxInsertRows
      /\ site' = ins.table
      /\ view' = [NoView EXCEPT !.page = "insert_site",
                                !.form = <<row>>,
                                !.save = IF ins.raised THEN "insert_raised"
                                         ELSE "saved"]
      /\ UNCHANGED <<secrets, logged_in, personnel, storage, issued, now>>

NextInsert ==
  \/ \E row \in InsertPersonnelRows(now), fault \in {"none"} \cup InsertFaults :
       CallInsertPersonnel(row, fault)
  \/ \E row \in InsertSiteRows(now), fault \in {"none"} \cup InsertFaults :
       CallInsertSite(row, fault)

SpecInsert == Init /\ [][NextInsert]_vars

\* clean_token called on its own: every text of at most MaxLen characters
\* over letters, a digit, the two kept signs, blanks and other signs, and
\* None; a call is applied to the text the state holds, so it is also applied
\* to its own results.
MaxLen == 3

TokenAlphabet == {"a", "Z", "7", "_", "-", " ", "#", "."}

TokenInputs == {None} \cup UNION {[1..n -> TokenAlphabet] : n \in 0..MaxLen}

InitToken ==
  /\ secrets = SecretsLocal
  /\ logged_in = FALSE
  /\ personnel = <<>>
  /\ site = <<>>
  /\ storage = <<>>
  /\ issued = {}
  /\ now = [day |-> Day0, sec |-> 0]
  /\ \E text \in TokenInputs : view = [NoView EXCEPT !.form = <<text>>]

\* hh = clean_token(text)
CallCleanToken ==
  /\ view' = [view EXCEPT !.page = "clean_token",
                          !.form = <<clean_token(view.form[1])>>]
  /\ UNCHANGED <<secrets, logged_in, personnel, site, storage, issued, now>>

NextToken == CallCleanToken

SpecToken == InitToken /\ [][NextToken]_vars

\* Widget values of the evidence scenario: entries saved with and without a
\* file, the upload failing or not, and review tabs that list every record.
EvidencePersonnel ==
  {in \in {[PersonnelEntry(<<"7"," ">>, PPE, HIGH, <<"n","o">>, <<>>)
              EXCEPT !.evidence = file, !.click = click, !.fault = fault]
             @@ PersonnelPick(ALL, ALL, ALL, <<>>) :
             file \in {NoFile, FileA}, click \in BOOLEAN,
             fault \in {"none", "upload"}} :
     /\ FaultApplies(in.click, PersonnelValid(in), in.evidence, in.fault)
     /\ ~in.click => in.evidence = NoFile}

EvidenceSite ==
  {in \in {[SiteEntry(<<"c">>, <<"T"," ">>, <<"1">>, LOW)
              EXCEPT !.photo = file, !.click = click, !.fault = fault]
             @@ SitePick(ALL, ALL, ALL, <<>>, <<>>) :
             file \in {NoFile, FileB}, click \in BOOLEAN,
             fault \in {"none", "upload"}} :
     /\ FaultApplies(in.click, SiteValid(in), in.photo, in.fault)
     /\ ~in.click => in.photo = NoFile}

NextEvidence == TickSec \/ Step(EvidencePersonnel, EvidenceSite, MaxRows)

SpecEvidence == Init /\ [][NextEvidence]_vars

\* ================================================================== claims
\* a step that is a script run, not a tick of the clock
IsRun == now' = now

Prefix(a, b) == Len(a) <= Len(b) /\ \A i \in DOMAIN a : b[i] = a[i]

AllRows == Range(personnel) \cup Range(site)
PointerOf(r) == IF "evidence_path" \in DOMAIN r THEN r.evidence_path ELSE r.photo_path

\* C1: both tables are append-only: every step keeps every stored row, with
\* every field unchanged, at its place; rows are only added at the end.
C1_AppendOnly == [][Prefix(personnel, personnel') /\ Prefix(site, site')]_vars

\* both tables hold a row and the session has logged out since
C1_Witness == Len(personnel) >= 1 /\ Len(site) >= 1 /\ view.page = "logout"

\* the day number an ISO date text stands for
DayOf(text) == CHOOSE d \in 0..99 : Isoformat(d) = text

\* the personnel rows that were stored when the last run evaluated its token
RowsAtEvaluation ==
  IF view.save = "saved" THEN SubSeq(personnel, 1, Len(personnel) - 1) ELSE personnel

\* C2: whenever a run evaluates a non-empty token, the warning is shown if
\* and only if the total it got is at least 3 or the recent count at least 2.
C2_WarningIffThreshold ==
  view.counted => (view.warned <=> (view.total >= 3 \/ view.last30 >= 2))

\* a warning for three records of which fewer than two are recent
C2_Witness == view.counted /\ view.warned /\ view.total >= 3 /\ view.last30 < 2

\* C3: the recent count of a run equals the number of the token's records
\* dated from 30 days before the current date up to the current date.
C3_RecentIsTrailingWindow ==
  view.counted =>
    view.last30 =
      Cardinality({i \in DOMAIN RowsAtEvaluation :
                     /\ RowsAtEvaluation[i].hard_hat_number = view.form[1]
                     /\ view.today - 30 <= DayOf(RowsAtEvaluation[i].date_of_event)
                     /\ DayOf(RowsAtEvaluation[i].date_of_event) <= view.today})

\* C4: the total of a run equals the number of records stored with exactly
\* that hard hat number when the run evaluated it: the run's own submission
\* is not in it, and the table then holds exactly one more.
C4_TotalIsFresh ==
  view.counted =>
    Cardinality({i \in DOMAIN personnel : personnel[i].hard_hat_number = view.form[1]})
      = view.total + (IF view.save = "saved" THEN 1 ELSE 0)

\* an evaluation after three submissions for one hard hat: total 3, warned
C4_Witness ==
  /\ view.counted
  /\ view.total = 3
  /\ view.warned
  /\ view.save = "none"

\* the table the last run queried, and whether it queried one
Queried == view.page \in {"personnel", "site"}
QueriedTable == IF view.page = "personnel" THEN personnel ELSE site

\* a filter value that constrains: not absent, not empty, not "(All)"
Supplied(f, k) == k \in DOMAIN f /\ f[k] \notin {None, <<>>, ALL}

\* the column each exact-match key is compared with
ExactColumn ==
  [hard_hat |-> "hard_hat_number", type |-> "violation_type", severity |-> "severity",
   building |-> "building", floor |-> "floor", risk_level |-> "risk_level"]
ExactKeys == DOMAIN ExactColumn \cap DOMAIN view.filters
SubstringKeys == {"keyword", "company_contains"} \cap DOMAIN view.filters

MatchesExact(r) ==
  \A k \in ExactKeys : Supplied(view.filters, k) => r[ExactColumn[k]] = view.filters[k]

\* the rows are stored rows, each at most once, never an older before a newer
ListedNewestFirst ==
  /\ \A i \in DOMAIN view.rows :
        /\ view.rows[i].id \in DOMAIN QueriedTable
        /\ view.rows[i] = QueriedTable[view.rows[i].id]
  /\ \A i, j \in DOMAIN view.rows :
        i < j => /\ view.rows[i].id # view.rows[j].id
                 /\ TextLeq(view.rows[j].created_at, view.rows[i].created_at)

Unfiltered == \A k \in DOMAIN view.filters : ~Supplied(view.filters, k)

\* C9 as claimed: an unfiltered query lists every stored record once, newest
\* created_at first, and records of equal created_at in insertion order.
C9_UnfilteredNewestFirstStable ==
  (Queried /\ Unfiltered) =>
    /\ Len(view.rows) = Len(QueriedTable)
    /\ ListedNewestFirst
    /\ \A i, j \in DOMAIN view.rows :
          (i < j /\ view.rows[i].created_at = view.rows[j].created_at)
            => view.rows[i].id < view.rows[j].id

\* C9 amended: an unfiltered query lists every stored record once, newest
\* created_at first; the order of records of equal created_at is not fixed.
C9_UnfilteredNewestFirst ==
  (Queried /\ Unfiltered) =>
    /\ Len(view.rows) = Len(QueriedTable)
    /\ ListedNewestFirst

\* an unfiltered listing of two records created in different seconds
C9_Witness ==
  /\ Queried
  /\ Unfiltered
  /\ Len(view.rows) = 2
  /\ view.rows[1].created_at # view.rows[2].created_at

\* C10: every row a query returns is a stored row that equals the filter on
\* every supplied exact-match key, and without a substring filter every such
\* stored row is returned; an absent, empty or "(All)" key constrains nothing.
C10_ExactFiltersSoundComplete ==
  Queried =>
    /\ \A i \in DOMAIN view.rows :
          /\ view.rows[i].id \in DOMAIN QueriedTable
          /\ view.rows[i] = QueriedTable[view.rows[i].id]
          /\ MatchesExact(view.rows[i])
    /\ (\A k \in SubstringKeys : ~Supplied(view.filters, k)) =>
          \A n \in DOMAIN QueriedTable :
            MatchesExact(QueriedTable[n]) => \E i \in DOMAIN view.rows : view.rows[i].id = n

\* a building filter that returns one of two stored site issues
C10_Witness ==
  /\ view.page = "site"
  /\ Supplied(view.filters, "building")
  /\ Len(site) = 2
  /\ Len(view.rows) = 1

\* C5: a run that evaluates a token and saves nothing (count_personnel and
\* the escalation test, Save not pressed) leaves both tables and the evidence
\* storage unchanged.
C5_EvaluationIsPureRead ==
  [][(IsRun /\ view'.counted /\ view'.save = "none")
       => UNCHANGED <<personnel, site, storage>>]_vars

\* an evaluation of a token that has a stored record
C5_Witness == view.counted /\ view.save = "none" /\ view.total >= 1

\* C6: a Save whose normalised hard-hat number or trimmed description
\* (personnel), or trimmed company, building, floor or issue (site), is empty
\* leaves both tables and the evidence storage unchanged.
C6_InvalidPersistsNothing ==
  [][(IsRun /\ view'.save # "none" /\ \E i \in DOMAIN view'.form : view'.form[i] = <<>>)
       => UNCHANGED <<personnel, site, storage>>]_vars

\* a personnel Save with a file and a blank description, rows already stored
C6_Witness ==
  /\ view.save = "description_required"
  /\ view.file
  /\ view.form[1] # <<>>
  /\ Len(personnel) >= 1

\* C7 as claimed: a valid Save whose upload fails still inserts the record,
\* with an absent pointer.
C7_UploadFailureStillInserts ==
  [][(IsRun /\ view'.save = "upload_raised")
       => \/ /\ Len(personnel') = Len(personnel) + 1
             /\ personnel'[Len(personnel')].evidence_path = None
          \/ /\ Len(site') = Len(site) + 1
             /\ site'[Len(site')].photo_path = None]_vars

\* C7 amended: a valid Save whose upload fails inserts nothing, and the
\* pointer of every stored record is absent or names a stored file.
C7_UploadFailureBlocksSave ==
  /\ [][(IsRun /\ view'.save = "upload_raised") => UNCHANGED <<personnel, site>>]_vars
  /\ [](\A r \in AllRows : PointerOf(r) = None \/ PointerOf(r) \in DOMAIN storage)

\* a Save with a file whose upload raised, while another record has a file
C7_Witness ==
  /\ view.save = "upload_raised"
  /\ view.file
  /\ \E r \in AllRows : PointerOf(r) # None

\* C8: no upload returns a pointer that an earlier upload was stored under.
C8_PointersNeverCollide ==
  [][(IsRun /\ view'.pointer # None) => view'.pointer \notin DOMAIN storage]_vars

\* ---------------------------------------------------------------- C11
\* the call the step made, and the row it was given
InsertCalled == IsRun /\ view'.page \in {"insert_personnel", "insert_site"}
GivenRow == view'.form[1]

\* table after is table before with exactly one row appended, and every
\* column of that row holds the value the call supplied (None for a key the
\* row does not have)
OneRowAdded(before, after, keys) ==
  /\ Len(after) = Len(before) + 1
  /\ Prefix(before, after)
  /\ \A k \in keys : after[Len(after)][k] = Get(GivenRow, k)

\* C11: an insert is never partially applied: a call of insert_personnel or
\* insert_site that raises (a missing required key, the connection, the
\* statement, the commit) leaves both tables exactly as they were; a call
\* that returns has added exactly one row with the supplied values to its
\* table, and left the other table alone.
C11_InsertAllOrNothing ==
  [][InsertCalled =>
       IF view'.save = "insert_raised"
       THEN personnel' = personnel /\ site' = site
       ELSE IF view'.page = "insert_personnel"
       THEN OneRowAdded(personnel, personnel', PersonnelKeys) /\ site' = site
       ELSE OneRowAdded(site, site', SiteKeys) /\ personnel' = personnel]_vars

\* a call has raised when a row was already stored, and the row it was given
\* had every required key: it failed at the connection, statement or commit
C11_Witness ==
  /\ view.page = "insert_personnel"
  /\ view.save = "insert_raised"
  /\ PersonnelRequired \subseteq DOMAIN view.form[1]
  /\ Len(personnel) = 1
  /\ Len(site) = 1

\* ---------------------------------------------------------------- C12
\* the text the state holds is a result of clean_token
IsToken == view.page = "clean_token"

\* C12: hard-hat normalization is idempotent and its result holds only
\* characters of [A-Za-z0-9_-]: clean_token applied to a result of
\* clean_token returns that result, and every character of a result is a
\* letter, a digit, an underscore or a hyphen.
C12_CleanTokenIdempotent ==
  /\ [](IsToken => \A i \in DOMAIN view.form[1] : TokenChar(view.form[1][i]))
  /\ [][IsToken => view'.form = view.form]_vars

\* a call has returned a letter, a hyphen and a digit: the whole text, or
\* what is left of a text that held a blank or another sign as well
C12_Witness ==
  /\ IsToken
  /\ view.form[1] = <<"a", "-", "7">>

\* ---------------------------------------------------------------- C13
\* a run that rendered a page, the table of that page before and after it
PageRun == IsRun /\ view'.page \in {"personnel", "site"}
TableBefore == IF view'.page = "personnel" THEN personnel ELSE site
TableAfter == IF view'.page = "personnel" THEN personnel' ELSE site'

\* C13: evidence pointers round-trip unchanged.  A run that saves stores, as
\* the new record's evidence_path / photo_path, exactly the pointer
\* upload_evidence returned in that run: with a file, a pointer under which
\* the file is already stored (the upload completed before the insert); with
\* no file, the absent pointer.  Every record a fetch returns carries the
\* pointer its record was stored with: for a record of an earlier run the
\* pointer the table held before this run, for the record of this run the
\* pointer upload_evidence just returned.
C13_PointerRoundTrip ==
  [][PageRun =>
       /\ view'.save = "saved" =>
            /\ Len(TableAfter) = Len(TableBefore) + 1
            /\ PointerOf(TableAfter[Len(TableAfter)]) = view'.pointer
            /\ IF view'.file
               THEN view'.pointer # None /\ view'.pointer \in DOMAIN storage'
               ELSE view'.pointer = None
       /\ \A i \in DOMAIN view'.rows :
            LET r == view'.rows[i]
            IN  IF r.id <= Len(TableBefore)
                THEN PointerOf(r) = PointerOf(TableBefore[r.id])
                ELSE view'.save = "saved" /\ PointerOf(r) = view'.pointer]_vars

\* a later run that saves nothing lists a record saved with a file and a
\* record saved without one
C13_Witness ==
  /\ view.page \in {"personnel", "site"}
  /\ view.save = "none"
  /\ \E i, j \in DOMAIN view.rows :
       /\ PointerOf(view.rows[i]) # None
       /\ PointerOf(view.rows[i]) \in DOMAIN storage
       /\ PointerOf(view.rows[j]) = None

\* ---------------------------------------------------------------- C14
\* the step ran init_db, a count or fetch, an insert or an upload: it changed
\* a table or the storage, or it is a run that got past the gate
StoreOperation ==
  \/ personnel' # personnel
  \/ site' # site
  \/ storage' # storage
  \/ IsRun /\ view'.page \in {"personnel", "site", "error", "logout"}

\* the step is a press of the Login button
LoginClick == IsRun /\ view'.page \in {"login", "wrong_password"}

\* C14: the record store is only touched by an authorized session: a step
\* that runs init_db, an insert, a count or fetch query or an upload starts
\* with logged_in true; logged_in becomes true only by a Login click whose
\* password equals get_app_password(); a Login click with another password
\* leaves it false; and Logout leaves it false, so that no store or storage
\* operation runs until a new successful login.
C14_StoreOnlyWhenLoggedIn ==
  /\ [][StoreOperation => logged_in]_vars
  /\ [][(~logged_in /\ logged_in') =>
          LoginClick /\ view'.form = <<get_app_password(secrets)>>]_vars
  /\ [][(LoginClick /\ view'.form # <<get_app_password(secrets)>>) =>
          ~logged_in /\ ~logged_in']_vars
  /\ [][(IsRun /\ view'.page = "logout") => ~logged_in']_vars

\* records and a file are stored, the session has logged out, and a Login
\* click with a wrong password has left it logged out
C14_Witness ==
  /\ view.page = "wrong_password"
  /\ ~logged_in
  /\ personnel # <<>>
  /\ site # <<>>
  /\ storage # <<>>

====
